---- MODULE Spec2Model ----
(***************************************************************************)
(* Byte-range streaming of services/file.service.go: GetFileStream, its   *)
(* producer goroutine, streamFilePart, chunk and rangedParts.             *)
(*                                                                         *)
(* A file is a list of Telegram documents (parts).  Byte g of the file is *)
(* modelled by the number g, so a delivered body is a sequence of file    *)
(* positions.  Go indexes are 0-based; TLA+ sequences are 1-based, so     *)
(* part number p of the code is element p+1 of a sequence here.           *)
(*                                                                         *)
(* Sizes are scaled: parts hold a few bytes and the transfer unit, which  *)
(* the handler fixes at 1024*1024, ranges over 1..MaxUnit, so that parts  *)
(* of one block and of several blocks both occur.  Spec follows one       *)
(* request from its arrival to the end of its handler and producer;       *)
(* SpecShared follows the Workload counter of one client under several    *)
(* streams.                                                               *)
(***************************************************************************)
EXTENDS Integers, Sequences, FiniteSets

\* ---- bounds of the model ----
MaxParts == 3   \* most parts of a file
MaxChunk == 4   \* largest uniform part size (bytes)
MaxSize  == 12  \* largest file (bytes)
MaxUnit  == 3   \* largest transfer unit; the code passes 1024*1024 (line 337)
CopyBuf  == 1   \* bytes one pipe read of io.CopyN takes at most
NumStreams == 3 \* streams that run at once on one shared client

Streams == 1..NumStreams

VARIABLES
  multiClient,   \* config.MultiClient
  unit,          \* chunkSize argument of streamFilePart
  docs,          \* sizes of the file's documents, in order
  method,        \* r.Method
  rangeHeader,   \* r.Header.Get("Range"): NoRange, or s and e of bytes=s-e
  pc,            \* position of the handler
  exit,          \* exit path the handler took
  workload,      \* tgClient.Workload of the shared client
  status,        \* status code of the response
  contentRange,  \* Content-Range header: <<>> (not set) or <<start, end, size>>
  start, end,    \* the range served
  parts,         \* the part list of getParts, as rangedParts leaves it
  lo, hi,        \* partsToDownload == parts[lo:hi]
  ppc,           \* position of the producer goroutine
  pIdx,          \* part number the producer is at
  offset,        \* streamFilePart: offset
  currentPart,   \* streamFilePart: currentPart
  block,         \* bytes of the pending writer.Write
  taken,         \* a reader has met the pending write
  partOut,       \* bytes streamFilePart has handed to writer.Write for this part
  partFailed,    \* a fetch of this part came back empty or failed
  fetchLog,      \* <<part number, offset>> of every chunk call, in order
  fetchFailed,   \* some chunk call failed or came back empty
  pipe,          \* "open", or "closed" after iw.Close()
  out,           \* body bytes written to the response
  buf,           \* io.CopyN: bytes read from the pipe, not yet written
  proc,          \* the process: "up", "fatal" (ending on a panic), "down"
  errBody,       \* body that http.Error has written: <<>> or <<the error>>
  spc,           \* concurrent streams: position of each stream's handler
  sreg           \* concurrent streams: the Workload value each stream has read

reqVars  == <<multiClient, unit, docs, method, rangeHeader>>
hVars    == <<pc, exit, workload, status, contentRange, start, end, parts, lo, hi>>
prodVars == <<ppc, pIdx, offset, currentPart, block, taken, partOut, partFailed,
              fetchLog, fetchFailed, pipe>>
sharedVars == <<spc, sreg>>
vars     == <<reqVars, hVars, prodVars, out, buf, proc, errBody, sharedVars>>

\* ---- arithmetic helpers ----
Min(a, b) == IF a < b THEN a ELSE b

\* utils.Max
Max(a, b) == IF a > b THEN a ELSE b

\* math.Ceil(float64(x)/float64(y)) for y > 0
CeilDiv(x, y) == IF x >= 0 THEN (x + y - 1) \div y ELSE -((-x) \div y)

\* math.Floor(float64(x)/float64(y)) for y > 0
FloorDiv(x, y) == x \div y

RECURSIVE SumTo(_, _)
SumTo(s, n) == IF n = 0 THEN 0 ELSE s[n] + SumTo(s, n - 1)

\* file.Size: the sum of the document sizes
FileSize(d) == SumTo(d, Len(d))

\* first file position held by part number p
Base(d, p) == SumTo(d, p)

\* the file's bytes a..b (inclusive)
FileSlice(a, b) == [i \in 1..(b - a + 1) |-> a + i - 1]

\* Go's r[a:b] on a sequence
GoSlice(r, a, b) == SubSeq(r, a + 1, b)

\* file layouts: n parts, all of size cs except a last one of 1..cs, of at
\* most MaxSize bytes in all
Layouts ==
  {<<>>} \cup
  { l \in { [i \in 1..n |-> IF i < n THEN cs ELSE last] :
              <<n, cs, last>> \in { t \in (1..MaxParts) \X (1..MaxChunk) \X (1..MaxChunk) :
                                     t[3] <= t[2] } } :
      FileSize(l) <= MaxSize }

\* no Range header, or bytes=s-e
NoRange == [present |-> FALSE, s |-> 0, e |-> 0]

Headers(size) == {NoRange} \cup [present : {TRUE}, s : 0..size, e : 0..size]

\* ---- range_parser.Parse(file.Size, header) for a header bytes=s-e ----
\* The parser is a package outside the repository.  A range with start > end
\* is dropped, and a header with no range left is an error.  A last byte
\* position beyond the file is limited to size-1 (limits), as HTTP asks and
\* the package does, or makes the range one to drop (~limits): the handler
\* takes either.
Parse(size, h, limits) ==
  LET beyond == h.e > size - 1
      e      == IF beyond THEN size - 1 ELSE h.e
  IN  IF h.s > e \/ (beyond /\ ~limits) THEN [err |-> TRUE, Start |-> 0, End |-> 0]
      ELSE [err |-> FALSE, Start |-> h.s, End |-> e]

\* ---- getParts: one Part per document, untrimmed ----
getParts(d) ==
  [i \in 1..Len(d) |-> [Doc |-> i - 1, Start |-> 0, End |-> d[i] - 1, Size |-> d[i]]]

\* ---- rangedParts ----
startPartNumber(ps, s) == Max(CeilDiv(s, ps[1].Size) - 1, 0)

endPartNumber(ps, e) == CeilDiv(e, ps[1].Size)

\* cap(parts) after n appends to the empty slice of getParts: append doubles
\* the capacity of a full slice
RECURSIVE AppendCap(_)
AppendCap(n) ==
  IF n = 0 THEN 0
  ELSE LET c == AppendCap(n - 1)
       IN  IF n <= c THEN c ELSE IF c = 0 THEN 1 ELSE 2 * c

\* the zero value of types.Part
ZeroPart == [Doc |-> -1, Start |-> 0, End |-> 0, Size |-> 0]

\* parts[0] of an empty list, parts[a:b] with a > b or b beyond the capacity
\* of the list, and partsToDownload[0] of an empty slice panic.
rangedPartsPanics(ps, s, e) ==
  \/ Len(ps) = 0
  \/ startPartNumber(ps, s) > endPartNumber(ps, e)
  \/ endPartNumber(ps, e) > AppendCap(Len(ps))
  \/ startPartNumber(ps, s) = endPartNumber(ps, e)

\* The array after the two assignments through the slice, which shares the
\* array of parts: elements lo+1 .. hi are partsToDownload. A slice that ends
\* beyond len(parts), within the capacity, takes in zero Parts.
rangedParts(ps, s, e) ==
  LET chunkSize == ps[1].Size
      a  == startPartNumber(ps, s)
      b  == endPartNumber(ps, e)
      p0 == [i \in 1..Max(Len(ps), b) |-> IF i <= Len(ps) THEN ps[i] ELSE ZeroPart]
      p1 == [p0 EXCEPT ![a + 1].Start = s % chunkSize]
  IN  [p1 EXCEPT ![b].End = e % chunkSize]

\* ---- chunk: the bytes UploadGetFile returns for (part, offset, limit) ----
chunk(d, part, off, limit) ==
  LET upto == Min(off + limit, part.Size)
  IN  IF off >= upto THEN <<>>
      ELSE [i \in 1..(upto - off) |-> Base(d, part.Doc) + off + i - 1]

\* ---- streamFilePart ----
firstOffset(s, u) == s - (s % u)

firstPartCut(s, u) == s - firstOffset(s, u)

lastPartCut(e, u) == (e % u) + 1

\* partCount as it would be if the last byte were taken as exclusive
partCount_EndExclusive(s, e, u) == CeilDiv(e, u) - FloorDiv(firstOffset(s, u), u)

partCount(s, e, u) == CeilDiv(e + 1, u) - FloorDiv(firstOffset(s, u), u)

\* TrimBounds as it would be if the last of several blocks were not cut
TrimBounds_LastBlockUncut(r, cur, s, e, u) ==
  IF partCount(s, e, u) = 1 THEN <<firstPartCut(s, u), lastPartCut(e, u)>>
  ELSE IF cur = 1 THEN <<firstPartCut(s, u), Len(r)>>
  ELSE <<0, Len(r)>>

\* the slice expression applied to block r, as <<from, to>> of Go's r[from:to]
TrimBounds(r, cur, s, e, u) ==
  IF partCount(s, e, u) = 1 THEN <<firstPartCut(s, u), lastPartCut(e, u)>>
  ELSE IF cur = 1 THEN <<firstPartCut(s, u), Len(r)>>
  ELSE IF cur = partCount(s, e, u) THEN <<0, lastPartCut(e, u)>>
  ELSE <<0, Len(r)>>

\* slice bounds out of range
TrimPanics(r, cur, s, e, u) ==
  LET b == TrimBounds(r, cur, s, e, u)
  IN  b[1] > b[2] \/ b[2] > Len(r)

TrimBlock(r, cur, s, e, u) ==
  LET b == TrimBounds(r, cur, s, e, u)
  IN  GoSlice(r, b[1], b[2])

\* ---- derived values of the request ----
contentLength == end - start + 1

remaining == contentLength - Len(out)

Running == proc # "down"

Init ==
  /\ multiClient \in BOOLEAN
  /\ unit \in 1..MaxUnit
  /\ docs \in Layouts
  /\ method \in {"GET", "HEAD"}
  /\ rangeHeader \in Headers(FileSize(docs))
  /\ pc = "client"
  /\ exit = "none"
  /\ workload = 0
  /\ status = 0
  /\ contentRange = <<>>
  /\ start = 0
  /\ end = 0
  /\ parts = <<>>
  /\ lo = 0
  /\ hi = 0
  /\ ppc = "idle"
  /\ pIdx = 0
  /\ offset = 0
  /\ currentPart = 0
  /\ block = <<>>
  /\ taken = FALSE
  /\ partOut = <<>>
  /\ partFailed = FALSE
  /\ fetchLog = <<>>
  /\ fetchFailed = FALSE
  /\ pipe = "open"
  /\ out = <<>>
  /\ buf = <<>>
  /\ proc = "up"
  /\ errBody = <<>>
  /\ spc = [i \in Streams |-> "client"]
  /\ sreg = [i \in Streams |-> 0]

\* ---- the handler, GetFileStream ----
\* lines 266-282: the client, and Workload++ in shared mode
SelectClient(ok) ==
  /\ Running /\ pc = "client"
  /\ UNCHANGED <<sharedVars, proc>>
  /\ IF multiClient
       THEN /\ ok
            /\ workload' = workload + 1
            /\ pc' = "lookup"
            /\ UNCHANGED <<exit, status, errBody>>
       ELSE /\ workload' = workload
            /\ IF ok THEN /\ pc' = "lookup"
                          /\ UNCHANGED <<exit, status, errBody>>
                     ELSE /\ pc' = "done"
                          /\ exit' = "authFail"
                          /\ status' = 500
                          /\ errBody' = <<"auth">>
  /\ UNCHANGED <<reqVars, contentRange, start, end, parts, lo, hi, prodVars, out, buf>>

\* lines 284-291: the cached GetFileByID
LookupFile(ok) ==
  /\ Running /\ pc = "lookup"
  /\ UNCHANGED <<sharedVars, proc>>
  /\ IF ok THEN /\ pc' = "range"
                /\ UNCHANGED <<exit, status, errBody>>
           ELSE /\ pc' = "done"
                /\ exit' = "lookupFail"
                /\ status' = 400
                /\ errBody' = <<"lookup">>
  /\ UNCHANGED <<reqVars, workload, contentRange, start, end, parts, lo, hi,
                 prodVars, out, buf>>

\* lines 293-313: the Range header; limits is what the parser does with a
\* last byte position beyond the file.  http.Error writes the error as the
\* body of the 400 response.
ParseRange(limits) ==
  /\ Running /\ pc = "range"
  /\ UNCHANGED <<sharedVars, proc>>
  /\ IF ~rangeHeader.present
       THEN /\ start' = 0
            /\ end' = FileSize(docs) - 1
            /\ status' = 200
            /\ pc' = "getparts"
            /\ UNCHANGED <<exit, contentRange, errBody>>
       ELSE LET r == Parse(FileSize(docs), rangeHeader, limits)
            IN  IF r.err
                  THEN /\ status' = 400
                       /\ exit' = "rangeFail"
                       /\ errBody' = <<"range">>
                       /\ pc' = "done"
                       /\ UNCHANGED <<start, end, contentRange>>
                  ELSE /\ start' = r.Start
                       /\ end' = r.End
                       /\ contentRange' = <<r.Start, r.End, FileSize(docs)>>
                       /\ status' = 206
                       /\ pc' = "getparts"
                       /\ UNCHANGED <<exit, errBody>>
  /\ UNCHANGED <<reqVars, workload, parts, lo, hi, prodVars, out, buf>>

\* lines 323-328: getParts; no body byte is written yet, so the 400 of
\* http.Error replaces the status set before
GetParts(ok) ==
  /\ Running /\ pc = "getparts"
  /\ UNCHANGED <<sharedVars, proc>>
  /\ IF ok THEN /\ parts' = getParts(docs)
                /\ pc' = "ranged"
                /\ UNCHANGED <<exit, status, errBody>>
           ELSE /\ status' = 400
                /\ exit' = "partsFail"
                /\ errBody' = <<"parts">>
                /\ pc' = "done"
                /\ UNCHANGED parts
  /\ UNCHANGED <<reqVars, workload, contentRange, start, end, lo, hi, prodVars, out, buf>>

\* lines 330-344: rangedParts, the pipe and the producer goroutine; a HEAD
\* skips io.CopyN
SliceAndSpawn ==
  /\ Running /\ pc = "ranged"
  /\ UNCHANGED <<sharedVars, proc, errBody>>
  /\ IF rangedPartsPanics(parts, start, end)
       THEN /\ pc' = "done"
            /\ exit' = "panic"
            /\ UNCHANGED <<parts, lo, hi, ppc, pIdx>>
       ELSE /\ parts' = rangedParts(parts, start, end)
            /\ lo' = startPartNumber(parts, start)
            /\ hi' = endPartNumber(parts, end)
            /\ ppc' = "next"
            /\ pIdx' = lo'
            /\ pc' = IF method = "HEAD" THEN "return" ELSE "copy"
            /\ exit' = IF method = "HEAD" THEN "head" ELSE exit
  /\ UNCHANGED <<reqVars, workload, status, contentRange, start, end, offset,
                 currentPart, block, taken, partOut, partFailed, fetchLog,
                 fetchFailed, pipe, out, buf>>

\* line 342, io.CopyN: one read from the pipe into the copy buffer; a read of
\* no bytes (an empty Write met) goes round the loop again
CopyRead ==
  /\ Running /\ pc = "copy" /\ remaining > 0
  /\ UNCHANGED <<sharedVars, proc, errBody>>
  /\ ppc = "write" /\ ~(block = <<>> /\ taken)
  /\ LET k == Min(Min(Len(block), CopyBuf), remaining)
     IN  /\ block' = SubSeq(block, k + 1, Len(block))
         /\ taken' = TRUE
         /\ buf' = SubSeq(block, 1, k)
         /\ pc' = IF k = 0 THEN "copy" ELSE "cwrite"
  /\ UNCHANGED <<reqVars, exit, workload, status, contentRange, start, end, parts,
                 lo, hi, ppc, pIdx, offset, currentPart, partOut, partFailed,
                 fetchLog, fetchFailed, pipe, out>>

\* line 342, io.CopyN: the write of the bytes just read to the response;
\* wrote = FALSE is a response write that fails (the client is gone)
CopyWrite(wrote) ==
  /\ Running /\ pc = "cwrite"
  /\ UNCHANGED <<sharedVars, proc, errBody>>
  /\ buf' = <<>>
  /\ IF wrote THEN /\ out' = out \o buf
                   /\ pc' = "copy"
                   /\ UNCHANGED exit
              ELSE /\ out' = out
                   /\ pc' = "return"
                   /\ exit' = "disconnect"
  /\ UNCHANGED <<reqVars, workload, status, contentRange, start, end, parts, lo, hi,
                 prodVars>>

\* io.CopyN has copied contentLength bytes
CopyDone ==
  /\ Running /\ pc = "copy" /\ remaining <= 0
  /\ UNCHANGED <<sharedVars, proc, errBody>>
  /\ pc' = "return"
  /\ exit' = "complete"
  /\ UNCHANGED <<reqVars, workload, status, contentRange, start, end, parts, lo, hi,
                 prodVars, out, buf>>

\* io.CopyN reads the end of the closed pipe before contentLength bytes
CopyEOF ==
  /\ Running /\ pc = "copy" /\ remaining > 0
  /\ UNCHANGED <<sharedVars, proc, errBody>>
  /\ pipe = "closed"
  /\ pc' = "return"
  /\ exit' = "eof"
  /\ UNCHANGED <<reqVars, workload, status, contentRange, start, end, parts, lo, hi,
                 prodVars, out, buf>>

\* lines 346-351: the deferred Workload--, registered as the last statement
Return ==
  /\ Running /\ pc = "return"
  /\ UNCHANGED <<sharedVars, proc, errBody>>
  /\ workload' = IF multiClient THEN workload - 1 ELSE workload
  /\ pc' = "done"
  /\ UNCHANGED <<reqVars, exit, status, contentRange, start, end, parts, lo, hi,
                 prodVars, out, buf>>

\* ---- the producer goroutine, lines 334-339 ----
\* the range loop: the next part, or the deferred iw.Close()
ProducerNext ==
  /\ Running /\ ppc = "next"
  /\ UNCHANGED <<sharedVars, proc, errBody>>
  /\ IF pIdx >= hi
       THEN /\ pipe' = "closed"
            /\ ppc' = "done"
            /\ UNCHANGED <<offset, currentPart, partOut, partFailed>>
       ELSE /\ ppc' = "fetch"
            /\ offset' = firstOffset(parts[pIdx + 1].Start, unit)
            /\ currentPart' = 1
            /\ partOut' = <<>>
            /\ partFailed' = FALSE
            /\ pipe' = pipe
  /\ UNCHANGED <<reqVars, hVars, pIdx, block, taken, fetchLog, fetchFailed, out, buf>>

\* streamFilePart lines 501-516: one chunk call, the trim and the start of
\* writer.Write; res is what the call returns.  A slice expression out of
\* range starts a panic of the goroutine.
ProducerFetch(res) ==
  /\ Running /\ ppc = "fetch"
  /\ UNCHANGED <<sharedVars, proc, errBody>>
  /\ LET part == parts[pIdx + 1]
         r    == IF res = "ok" THEN chunk(docs, part, offset, unit) ELSE <<>>
     IN  /\ fetchLog' = Append(fetchLog, <<pIdx, offset>>)
         /\ IF Len(r) = 0
              THEN /\ ppc' = "ret"
                   /\ partFailed' = TRUE
                   /\ fetchFailed' = TRUE
                   /\ UNCHANGED <<block, taken, partOut>>
              ELSE IF TrimPanics(r, currentPart, part.Start, part.End, unit)
                THEN /\ ppc' = "panic"
                     /\ UNCHANGED <<block, taken, partOut, partFailed, fetchFailed>>
                ELSE /\ block' = TrimBlock(r, currentPart, part.Start, part.End, unit)
                     /\ taken' = FALSE
                     /\ partOut' = partOut \o block'
                     /\ ppc' = "write"
                     /\ UNCHANGED <<partFailed, fetchFailed>>
  /\ UNCHANGED <<reqVars, hVars, pIdx, offset, currentPart, pipe, out, buf>>

\* ProducerWriteDone as it would be if writer.Write returned at once, as a
\* write to a buffered channel does
ProducerWriteDone_Buffered ==
  /\ Running /\ ppc = "write"
  /\ UNCHANGED <<sharedVars, proc, errBody>>
  /\ currentPart' = currentPart + 1
  /\ offset' = offset + unit
  /\ ppc' = IF currentPart' > partCount(parts[pIdx + 1].Start, parts[pIdx + 1].End, unit)
              THEN "ret" ELSE "fetch"
  /\ UNCHANGED <<reqVars, hVars, pIdx, block, taken, partOut, partFailed, fetchLog,
                 fetchFailed, pipe, out, buf>>

\* streamFilePart lines 516-524: writer.Write returns once the block is read
ProducerWriteDone ==
  /\ Running /\ ppc = "write" /\ block = <<>> /\ taken
  /\ UNCHANGED <<sharedVars, proc, errBody>>
  /\ currentPart' = currentPart + 1
  /\ offset' = offset + unit
  /\ ppc' = IF currentPart' > partCount(parts[pIdx + 1].Start, parts[pIdx + 1].End, unit)
              THEN "ret" ELSE "fetch"
  /\ UNCHANGED <<reqVars, hVars, pIdx, block, taken, partOut, partFailed, fetchLog,
                 fetchFailed, pipe, out, buf>>

\* streamFilePart returns nil, and the loop goes to the next part
ProducerPartReturn ==
  /\ Running /\ ppc = "ret"
  /\ UNCHANGED <<sharedVars, proc, errBody>>
  /\ pIdx' = pIdx + 1
  /\ ppc' = "next"
  /\ UNCHANGED <<reqVars, hVars, offset, currentPart, block, taken, partOut,
                 partFailed, fetchLog, fetchFailed, pipe, out, buf>>

\* line 335: the panic unwinds the goroutine and runs its deferred
\* iw.Close(); no one recovers it, so the process is then about to end
ProducerPanicClose ==
  /\ Running /\ ppc = "panic"
  /\ pipe' = "closed"
  /\ ppc' = "dead"
  /\ proc' = "fatal"
  /\ UNCHANGED <<reqVars, hVars, pIdx, offset, currentPart, block, taken, partOut,
                 partFailed, fetchLog, fetchFailed, out, buf, sharedVars, errBody>>

\* the runtime ends the process after the unrecovered panic; the other
\* goroutines run until it does
ProcessExit ==
  /\ proc = "fatal"
  /\ proc' = "down"
  /\ UNCHANGED <<reqVars, hVars, prodVars, out, buf, sharedVars, errBody>>

Next ==
  \/ \E ok \in BOOLEAN : SelectClient(ok)
  \/ \E ok \in BOOLEAN : LookupFile(ok)
  \/ \E limits \in BOOLEAN : ParseRange(limits)
  \/ \E ok \in BOOLEAN : GetParts(ok)
  \/ SliceAndSpawn
  \/ CopyRead
  \/ \E wrote \in BOOLEAN : CopyWrite(wrote)
  \/ CopyDone
  \/ CopyEOF
  \/ Return
  \/ ProducerNext
  \/ \E res \in {"ok", "err", "empty"} : ProducerFetch(res)
  \/ ProducerWriteDone
  \/ ProducerPartReturn
  \/ ProducerPanicClose
  \/ ProcessExit

Spec == Init /\ [][Next]_vars

\* ---- several streams at once on one shared client ----
\* Each request runs GetFileStream in a goroutine of its own; in shared mode
\* all of them hold the same *utils.Client.  Workload++ and Workload-- are
\* plain statements on that struct: a read of the field and a later write of
\* the value read plus or minus one.  What a stream does between the two is
\* reduced here to whether it returns early or reaches the deferred function.
InitShared ==
  /\ Init
  /\ multiClient
  /\ docs = <<>> /\ unit = 1 /\ method = "GET" /\ rangeHeader = NoRange

\* line 271, tgClient.Workload++: the read
StreamReadInc(i) ==
  /\ spc[i] = "client"
  /\ sreg' = [sreg EXCEPT ![i] = workload]
  /\ spc' = [spc EXCEPT ![i] = "inc"]
  /\ UNCHANGED <<reqVars, hVars, prodVars, out, buf, proc, errBody>>

\* line 271, tgClient.Workload++: the write
StreamWriteInc(i) ==
  /\ spc[i] = "inc"
  /\ workload' = sreg[i] + 1
  /\ spc' = [spc EXCEPT ![i] = "handler"]
  /\ UNCHANGED <<reqVars, pc, exit, status, contentRange, start, end, parts, lo, hi,
                 prodVars, out, buf, sreg, proc, errBody>>

\* lines 286-289, 305-308, 325-328 and a panic of rangedParts: the handler is
\* left before the deferred function is registered
StreamEarlyReturn(i) ==
  /\ spc[i] = "handler"
  /\ spc' = [spc EXCEPT ![i] = "left"]
  /\ UNCHANGED <<reqVars, hVars, prodVars, out, buf, sreg, proc, errBody>>

\* lines 346-350, tgClient.Workload-- in the deferred function: the read
StreamReadDec(i) ==
  /\ spc[i] = "handler"
  /\ sreg' = [sreg EXCEPT ![i] = workload]
  /\ spc' = [spc EXCEPT ![i] = "dec"]
  /\ UNCHANGED <<reqVars, hVars, prodVars, out, buf, proc, errBody>>

\* lines 346-350, tgClient.Workload--: the write
StreamWriteDec(i) ==
  /\ spc[i] = "dec"
  /\ workload' = sreg[i] - 1
  /\ spc' = [spc EXCEPT ![i] = "done"]
  /\ UNCHANGED <<reqVars, pc, exit, status, contentRange, start, end, parts, lo, hi,
                 prodVars, out, buf, sreg, proc, errBody>>

NextShared ==
  \/ \E i \in Streams : StreamReadInc(i)
  \/ \E i \in Streams : StreamWriteInc(i)
  \/ \E i \in Streams : StreamEarlyReturn(i)
  \/ \E i \in Streams : StreamReadDec(i)
  \/ \E i \in Streams : StreamWriteDec(i)

SpecShared == InitShared /\ [][NextShared]_vars

\* ---- vocabulary of the properties ----
\* the range served is a valid one: 0 <= start <= end < totalSize
ValidRange == 0 <= start /\ start <= end /\ end < FileSize(docs)

\* number of the part that holds file position g
PartHolding(d, g) ==
  CHOOSE p \in 0..(Len(d) - 1) : Base(d, p) <= g /\ g < Base(d, p) + d[p + 1]

\* rangedParts has been called: it returned (the producer exists) or panicked
RangedCalled == ppc # "idle" \/ exit = "panic"

\* the handler is over and nothing outside it failed: no lookup, parse or
\* resolution error, no failed fetch, no disconnect
ServedCleanly ==
  /\ pc = "done"
  /\ exit \in {"complete", "eof", "panic"}
  /\ ~fetchFailed

\* bytes a..b (local offsets, inclusive) of a part
PartSlice(d, part, a, b) == [i \in 1..(b - a + 1) |-> Base(d, part.Doc) + a + i - 1]

\* C1: a GET on a valid range in which every fetch succeeds delivers exactly
\* the bytes start..end of the file (end-start+1 of them).
C1_DeliversRange ==
  (method = "GET" /\ ValidRange /\ RangedCalled /\ ServedCleanly)
    => out = FileSlice(start, end)

\* C2: in shared mode the Workload counter is back at its pre-request value
\* (0 here) on every exit path of the handler.
C2_WorkloadReleased ==
  (multiClient /\ pc = "done") => workload = 0

\* C3: on a valid range rangedParts returns the run of parts from the part
\* holding byte start to the part holding byte end, no more and no less.
C3_CoveringParts ==
  (ValidRange /\ RangedCalled)
    => /\ exit # "panic"
       /\ lo = PartHolding(docs, start)
       /\ hi - 1 = PartHolding(docs, end)

\* C4: after rangedParts the first returned part has Start = start mod
\* chunkSize, the last has End = end mod chunkSize, every other part keeps
\* Start = 0 and End = Size-1, and a range inside one part yields that one
\* part with both trims.
C4_Trims ==
  (ValidRange /\ RangedCalled)
    => /\ exit # "panic"
       /\ parts[lo + 1].Start = start % docs[1]
       /\ parts[hi].End = end % docs[1]
       /\ \A i \in 1..Len(parts) :
            /\ i # lo + 1 => parts[i].Start = 0
            /\ i # hi => parts[i].End = parts[i].Size - 1
       /\ PartHolding(docs, start) = PartHolding(docs, end)
            => /\ hi = lo + 1
               /\ lo = PartHolding(docs, start)

\* the part streamFilePart is working on, and whether its trims are in order
CurPart == parts[pIdx + 1]

TrimsInOrder(part) == 0 <= part.Start /\ part.Start <= part.End /\ part.End < part.Size

\* C5: for a part with 0 <= Start <= End < Size and full fetches, every block
\* handed to the pipe is the fetched block cut to [Start, End], and when
\* streamFilePart returns the blocks written concatenate to bytes Start..End
\* of the part.
C5_PartBytes ==
  (ppc \in {"write", "ret"} /\ TrimsInOrder(CurPart) /\ ~partFailed)
    => /\ (ppc = "write" /\ ~taken)
            => block = PartSlice(docs, CurPart, Max(offset, CurPart.Start),
                                 Min(offset + unit - 1, CurPart.End))
       /\ ppc = "ret"
            => partOut = PartSlice(docs, CurPart, CurPart.Start, CurPart.End)

\* C5 witness: streamFilePart has returned for a part it read with several
\* fetches: the first block lost bytes before Start, and the last block,
\* another one, lost bytes after End.
C5_Witness ==
  /\ ppc = "ret" /\ ~partFailed /\ TrimsInOrder(CurPart)
  /\ partCount(CurPart.Start, CurPart.End, unit) >= 2
  /\ firstPartCut(CurPart.Start, unit) > 0
  /\ lastPartCut(CurPart.End, unit) < unit
  /\ CurPart.End < CurPart.Size - 1
  /\ Len(partOut) = CurPart.End - CurPart.Start + 1

\* C6: a HEAD request issues no chunk fetch, neither while the handler runs
\* nor afterwards in its producer goroutine.
C6_HeadNoFetch ==
  method = "HEAD" => fetchLog = <<>>

\* C7: bytes=0-0 on a file of at least one byte is answered 206 with
\* Content-Range bytes 0-0/total and exactly the first byte of the file.
C7_FirstByte ==
  (/\ method = "GET"
   /\ rangeHeader = [present |-> TRUE, s |-> 0, e |-> 0]
   /\ FileSize(docs) >= 1
   /\ RangedCalled /\ ServedCleanly)
    => /\ status = 206
       /\ contentRange = <<0, 0, FileSize(docs)>>
       /\ out = <<0>>

\* C8: a GET without a Range header is answered 200 without Content-Range
\* and streams all totalSize bytes of the file.
C8_FullFile ==
  (/\ method = "GET"
   /\ ~rangeHeader.present
   /\ FileSize(docs) >= 1
   /\ RangedCalled /\ ServedCleanly)
    => /\ status = 200
       /\ contentRange = <<>>
       /\ out = FileSlice(0, FileSize(docs) - 1)

\* the request got as far as the Range header
RangeParsed == pc \notin {"client", "lookup", "range"} /\ exit \notin {"authFail", "lookupFail"}

\* C9: a range with start > end or end >= totalSize ends in a validation
\* error (400), with no body byte written and no chunk fetch.
C9_RejectsOutOfBounds ==
  (/\ rangeHeader.present
   /\ (rangeHeader.s > rangeHeader.e \/ rangeHeader.e >= FileSize(docs))
   /\ RangeParsed)
    => /\ exit = "rangeFail" /\ status = 400
       /\ out = <<>> /\ errBody = <<>> /\ fetchLog = <<>>

\* C10: once a chunk fetch has failed the producer issues no further fetch,
\* and it does not close the pipe cleanly (it closes it with an error).
C10_FailureClosesWithError ==
  [][fetchFailed => (fetchLog' = fetchLog /\ pipe' # "closed")]_vars

\* C11: once the consumer has stopped reading (the response write failed),
\* the producer issues no further chunk fetch, and the handler returns with
\* the Workload counter released.
C11_StopsAfterDisconnect ==
  [][exit = "disconnect"
       => /\ fetchLog' = fetchLog
          /\ (multiClient /\ pc' = "done") => workload' = 0]_vars

\* C13: a failure before the body is committed has the status class of its
\* kind: an unknown file id a 404-class status, a failed part resolution
\* (getParts) a 5xx status.
C13_StatusClasses ==
  /\ exit = "lookupFail" => (status >= 404 /\ status <= 404)
  /\ exit = "partsFail" => (status >= 500 /\ status <= 599)

IsPrefix(a, b) == Len(a) <= Len(b) /\ SubSeq(b, 1, Len(a)) = a

\* C14: at every point of a stream on a valid range the bytes delivered are
\* a prefix of file[start..end], also after a fetch that failed or came back
\* empty.
C14_PrefixOfRange ==
  (ValidRange /\ RangedCalled) => IsPrefix(out, FileSlice(start, end))

\* offsets of the chunk calls made for the part the producer is at
PartOffsets ==
  LET mine == SelectSeq(fetchLog, LAMBDA f : f[1] = pIdx)
  IN  [i \in 1..Len(mine) |-> mine[i][2]]

\* the fetches C15 states: ceil((End+1)/U) - floor(Start/U) of them, from
\* floor(Start/U)*U in steps of U
StatedOffsets(part, u) ==
  LET n == CeilDiv(part.End + 1, u) - (part.Start \div u)
  IN  [i \in 1..n |-> ((part.Start \div u) * u) + ((i - 1) * u)]

\* C15: for a part with 0 <= Start <= End < Size and no empty fetch, the
\* chunk calls are the stated ones, in increasing order, and the k-th call is
\* made only when k-1 blocks have been written to the pipe: before a call
\* there are as many calls as finished writes (currentPart - 1), during a
\* write one more.
C15_FetchSchedule ==
  (ppc \in {"fetch", "write", "ret"} /\ TrimsInOrder(CurPart) /\ ~partFailed)
    => LET x == StatedOffsets(CurPart, unit)
       IN  /\ currentPart - 1 <= Len(x)
           /\ ppc = "fetch" => PartOffsets = SubSeq(x, 1, currentPart - 1)
           /\ ppc = "write" => PartOffsets = SubSeq(x, 1, currentPart)
           /\ ppc = "ret" => PartOffsets = x

\* C15 witness: streamFilePart has returned after at least two fetches, the
\* first of them at an offset above 0.
C15_Witness ==
  /\ ppc = "ret" /\ TrimsInOrder(CurPart) /\ ~partFailed
  /\ Len(PartOffsets) >= 2
  /\ PartOffsets[1] > 0

\* C16: the bytes fetched and not yet read by the consumer are at most one
\* transfer unit, and the producer is at a fetch only when the block before
\* has been taken from the pipe in full.
C16_OneUnitAhead ==
  /\ Len(block) <= unit
  /\ ppc = "fetch" => block = <<>>

\* C16 witness: a block of a full transfer unit has been read in part, and
\* the producer still waits in writer.Write.
C16_Witness ==
  /\ ppc = "write" /\ taken
  /\ unit >= 2 /\ Len(block) = unit - 1
  /\ Len(fetchLog) = 1

\* C17: with an empty part list the request ends in a validation error
\* before any byte is written, and rangedParts never indexes an empty list
\* or an empty selected slice (it never panics).
C17_EmptyPartList ==
  /\ exit # "panic"
  /\ (docs = <<>> /\ pc = "done" /\ exit \notin {"authFail", "lookupFail", "rangeFail", "partsFail"})
       => (status >= 400 /\ status <= 499 /\ out = <<>>)

\* C18: the producer is never left blocked in a pipe write that no reader
\* will take: once the handler has returned, nothing reads the pipe, so the
\* producer must not be waiting in writer.Write with a block not taken.
C18_ProducerNotStuck ==
  ~(pc = "done" /\ ppc = "write" /\ ~(block = <<>> /\ taken))

\* C12: with several streams on one shared client, Workload is in every
\* state the number of streams that have incremented it and not yet
\* decremented it (0 before the first), and 0 once all streams have exited.
C12_WorkloadCounts ==
  /\ workload = Cardinality({i \in Streams : spc[i] \in {"handler", "dec", "left"}})
  /\ (\A i \in Streams : spc[i] \in {"done", "left"}) => workload = 0
====
